---- MODULE Spec2Model ----
(***************************************************************************)
(* Model of hotel_data_generator.py: the sidebar configuration, the        *)
(* normalisation of the stay-length weights, and the day x room-type       *)
(* booking synthesis loop with its occupancy tracker.                      *)
(*                                                                         *)
(* Dates are proleptic day numbers counted from 2024-01-01 (day 0), the    *)
(* way datetime keeps an ordinal; strftime("%Y-%m-%d") is the conversion   *)
(* to a <<year, month, day>> triple.  Money is kept in hundredths of a     *)
(* rupiah ("cents"), which is what round(x, 2) leaves.  Percentages are    *)
(* whole percents as the number inputs and sliders deliver them.           *)
(*                                                                         *)
(* Number_of_Guests and Booking_Channel are independent draws that no      *)
(* other column, and nothing in the tracker, depends on; the booking       *)
(* record of the model carries the other ten columns.  The market-data     *)
(* table and the CSV/ZIP export are outside the model.                     *)
(*                                                                         *)
(* target_pct is a local of the loop body that the next pass overwrites;   *)
(* target_pct_log keeps the value each (date, room type) drew.             *)
(***************************************************************************)
EXTENDS Integers, Sequences, FiniteSets

VARIABLES
    pc,                     \* position of the script
    booking_start,          \* booking_start_dt
    booking_end,            \* booking_end_dt
    checkin_start,          \* checkin_start_dt
    checkin_end,            \* checkin_end_dt
    today,                  \* today_dt
    tier_ranges,            \* "None" or <<<<min,max>>, ... 4 tiers>>
    occ_min, occ_max,       \* fallback occupancy range (%)
    room_configs,           \* ordered: <<[name, total, base_rate], ...>>
    rate_plan_discounts,    \* plan -> discount in %
    corporate_discount_idr,
    member_discount_pct,
    night_weights,          \* 7 weights, raw and then normalised fractions
    occupancy_tracker,      \* date -> room type -> count
    bookings_data,          \* the emitted bookings, in order
    booking_counter,
    d,                      \* the loop's date
    rt,                     \* index of the loop's room type in room_configs
    target_occupied,
    rooms_needed,
    attempt,                \* candidates drawn so far for (d, rt)
    checkout_date,          \* check-out date of the last candidate
    target_pct_log,         \* date -> room type -> the target_pct line 346 drew (-1: none yet)
    returned                \* what a single call of get_occupancy_for_date returned (%)

vars == <<pc, booking_start, booking_end, checkin_start, checkin_end, today,
          tier_ranges, occ_min, occ_max, room_configs, rate_plan_discounts,
          corporate_discount_idr, member_discount_pct, night_weights,
          occupancy_tracker, bookings_data, booking_counter, d, rt,
          target_occupied, rooms_needed, attempt, checkout_date, target_pct_log,
          returned>>

config == <<booking_start, booking_end, checkin_start, checkin_end, today,
            tier_ranges, occ_min, occ_max, room_configs, rate_plan_discounts,
            corporate_discount_idr, member_discount_pct>>

\* Bounds of the model: rooms per room type, and the bookings a run is followed for.
MaxRooms == 2

MaxBookings == 2

-----------------------------------------------------------------------------
(* Calendar: datetime's year / month / day of a day number, and back.      *)

IsLeap(y) == (y % 4 = 0) /\ ((y % 100 # 0) \/ (y % 400 = 0))

DaysInYear(y) == IF IsLeap(y) THEN 366 ELSE 365

DaysInMonth(y, m) ==
    IF m = 2 THEN (IF IsLeap(y) THEN 29 ELSE 28)
    ELSE IF m \in {4, 6, 9, 11} THEN 30 ELSE 31

RECURSIVE YearFrom(_, _)
YearFrom(y, n) ==
    IF n < DaysInYear(y) THEN <<y, n>> ELSE YearFrom(y + 1, n - DaysInYear(y))

RECURSIVE MonthFrom(_, _, _)
MonthFrom(y, m, n) ==
    IF n < DaysInMonth(y, m) THEN <<m, n + 1>>
    ELSE MonthFrom(y, m + 1, n - DaysInMonth(y, m))

\* strftime("%Y-%m-%d") of the date with day number n (n >= 0).
Strftime(n) ==
    LET yn == YearFrom(2024, n)
        md == MonthFrom(yn[1], 1, yn[2])
    IN  <<yn[1], md[1], md[2]>>

RECURSIVE DaysBeforeYear(_)
DaysBeforeYear(y) ==
    IF y <= 2024 THEN 0 ELSE DaysBeforeYear(y - 1) + DaysInYear(y - 1)

RECURSIVE DaysBeforeMonth(_, _)
DaysBeforeMonth(y, m) ==
    IF m <= 1 THEN 0 ELSE DaysBeforeMonth(y, m - 1) + DaysInMonth(y, m - 1)

\* The day number a "%Y-%m-%d" triple stands for.
Ordinal(ymd) == DaysBeforeYear(ymd[1]) + DaysBeforeMonth(ymd[1], ymd[2]) + ymd[3] - 1

-----------------------------------------------------------------------------
(* get_occupancy_for_date: the set of target percentages the uniform draw  *)
(* can return, on the whole-percent grid.                                   *)

MonthsDiff(checkin_date, today_date) ==
    LET c == Strftime(checkin_date)
        t == Strftime(today_date)
    IN  (c[1] - t[1]) * 12 + (c[2] - t[2])

\* Mutant of TierOf: each tier ends one month early.
TierOfOneMonthEarly(months_diff) ==
    IF months_diff < 0 THEN 1
    ELSE IF months_diff < 3 THEN 1
    ELSE IF months_diff < 6 THEN 2
    ELSE IF months_diff < 9 THEN 3
    ELSE 4

TierOf(months_diff) ==
    IF months_diff < 0 THEN 1
    ELSE IF months_diff <= 3 THEN 1
    ELSE IF months_diff <= 6 THEN 2
    ELSE IF months_diff <= 9 THEN 3
    ELSE 4

get_occupancy_for_date(checkin_date, today_date, tiers, fallback_min, fallback_max) ==
    IF tiers = "None" THEN fallback_min .. fallback_max
    ELSE LET r == tiers[TierOf(MonthsDiff(checkin_date, today_date))]
         IN  r[1] .. r[2]

-----------------------------------------------------------------------------
(* Exact fractions, for the normalised weights.                             *)

RECURSIVE GCD(_, _)
GCD(a, b) == IF b = 0 THEN a ELSE GCD(b, a % b)

Frac(n, m) == LET g == GCD(n, m) IN [num |-> n \div g, den |-> m \div g]

FracAdd(a, b) == Frac(a.num * b.den + b.num * a.den, a.den * b.den)

RECURSIVE SumSeq(_)
SumSeq(s) == IF s = <<>> THEN 0 ELSE Head(s) + SumSeq(Tail(s))

RECURSIVE FracSum(_)
FracSum(s) == IF s = <<>> THEN Frac(0, 1) ELSE FracAdd(Head(s), FracSum(Tail(s)))

\* [w / sum(night_weights) for w in night_weights]; defined when the sum is not 0.
Normalized(w) == [k \in 1..Len(w) |-> Frac(w[k], SumSeq(w))]

-----------------------------------------------------------------------------
(* Rates.  Amounts are integers: rupiah for the configured values, cents    *)
(* for Booked_Rate and Revenue_Generated.                                   *)

rate_plans == <<"BAR", "Non-Refundable", "Early Bird (> 30 days)", "Corporate">>

other_plans == SelectSeq(rate_plans, LAMBDA p : p # "Early Bird (> 30 days)")

\* round(n / m) to the nearest integer, ties to even, for m > 0.
RoundHalfEven(n, m) ==
    LET a == IF n < 0 THEN -n ELSE n
        q == a \div m
        r == a % m
        u == IF 2 * r < m THEN q
             ELSE IF 2 * r > m THEN q + 1
             ELSE IF q % 2 = 0 THEN q ELSE q + 1
    IN  IF n < 0 THEN -u ELSE u

\* round(x * j / m) without forming x * j.
ScaledRound(x, j, m) ==
    LET a == IF x < 0 THEN -x ELSE x
        u == (a \div m) * j + RoundHalfEven((a % m) * j, m)
    IN  IF x < 0 THEN -u ELSE u

\* Lines 378-384, in cents: the fixed corporate discount, or the plan's percentage.
PlanRate(base_rate, rate_plan) ==
    IF rate_plan = "Corporate"
    THEN (base_rate - corporate_discount_idr) * 100
    ELSE base_rate * (100 - rate_plan_discounts[rate_plan])

\* Lines 388-390, in hundredths of a cent: the stacking member discount.
MemberRate(rate, is_member) ==
    IF is_member THEN rate * (100 - member_discount_pct) ELSE rate * 100

\* Line 404: round(booked_rate * uniform(0.95, 1.05), 2), the draw in permille.
Jittered(rate, jitter) == ScaledRound(rate, jitter, 100000)

BookedRate(base_rate, rate_plan, is_member, jitter) ==
    Jittered(MemberRate(PlanRate(base_rate, rate_plan), is_member), jitter)

\* Line 407.
Revenue(booked_rate, num_nights, status) ==
    IF status = "Confirmed" THEN booked_rate * num_nights ELSE 0

\* Line 391: f"{rate_plan} + Member"; a label is the sequence of its parts.
PlanLabel(rate_plan, is_member) ==
    IF is_member THEN <<rate_plan, " + Member">> ELSE <<rate_plan>>

\* Line 410: f"BKG{booking_counter:05d}", the digits zero-padded to width 5.
RECURSIVE Digits(_)
Digits(n) == IF n < 10 THEN <<n>> ELSE Append(Digits(n \div 10), n % 10)

RECURSIVE ZeroPad(_, _)
ZeroPad(s, width) == IF Len(s) >= width THEN s ELSE ZeroPad(<<0>> \o s, width)

\* Mutant of BookingId: ids numbered from 0.
BookingIdZeroBased(counter) == <<"BKG">> \o ZeroPad(Digits(counter - 1), 5)

BookingId(counter) == <<"BKG">> \o ZeroPad(Digits(counter), 5)

-----------------------------------------------------------------------------
(* Dates of a candidate.                                                    *)

Min(a, b) == IF a < b THEN a ELSE b

Max(a, b) == IF a > b THEN a ELSE b

\* Line 352.
MaxAdvance(date) == Min(90, date - booking_start)

\* Lines 353-357: the booking dates the draw can give, before the clamp.
DrawnBookDates(date) ==
    IF MaxAdvance(date) > 0
    THEN {date - advance : advance \in 1..MaxAdvance(date)}
    ELSE {booking_start}

\* Lines 360-361.
ClampBookDate(book_date) == Min(Max(book_date, booking_start), booking_end)

\* Line 364: np.random.choice([1..7], p=night_weights) draws a length of weight > 0.
NightDraws == {k \in 1..7 : night_weights[k].num > 0}

\* Line 406.
StatusDraws == {"Confirmed", "Cancelled"}

\* Line 404: sample points of uniform(0.95, 1.05), in permille.
JitterDraws == {950, 1050}

\* Mutant of PlanDraws: Early Bird from 30 days of advance on.
PlanDrawsFromThirtyDays(days_advance) ==
    IF days_advance >= 30 THEN {"Early Bird (> 30 days)"}
    ELSE {other_plans[k] : k \in 1..Len(other_plans)}

\* Lines 371-375.
PlanDraws(days_advance) ==
    IF days_advance > 30 THEN {"Early Bird (> 30 days)"}
    ELSE {other_plans[k] : k \in 1..Len(other_plans)}

\* Mutant of TrackerAfter: the night of the check-out date is counted too.
TrackerAfterInclusiveCheckout(tracker, room_type, checkin_date, checkout, status) ==
    IF status = "Confirmed"
    THEN [stay \in DOMAIN tracker |->
            IF checkin_date <= stay /\ stay <= checkout
            THEN [tracker[stay] EXCEPT ![room_type] = @ + 1]
            ELSE tracker[stay]]
    ELSE tracker

\* Mutant of TrackerAfter: the tracker counts cancelled bookings too.
TrackerAfterAnyStatus(tracker, room_type, checkin_date, checkout, status) ==
    [stay \in DOMAIN tracker |->
        IF checkin_date <= stay /\ stay < checkout
        THEN [tracker[stay] EXCEPT ![room_type] = @ + 1]
        ELSE tracker[stay]]

\* Lines 424-429.
TrackerAfter(tracker, room_type, checkin_date, checkout, status) ==
    IF status = "Confirmed"
    THEN [stay \in DOMAIN tracker |->
            IF checkin_date <= stay /\ stay < checkout
            THEN [tracker[stay] EXCEPT ![room_type] = @ + 1]
            ELSE tracker[stay]]
    ELSE tracker

\* Mutant of RoomsNeeded: the rooms already occupied are not subtracted.
RoomsNeededIgnoringOccupied(target, current_occupied) == Max(0, target)

\* Line 349.
RoomsNeeded(target, current_occupied) == Max(0, target - current_occupied)

\* Mutant of TargetOccupied: the product is rounded up.
TargetOccupiedRoundedUp(total, target_pct) == (total * target_pct + 99) \div 100

\* Line 347: int(total * target_pct), the percentage as a whole percent.
TargetOccupied(total, target_pct) == (total * target_pct) \div 100

\* Line 346: the percentages the draw of get_occupancy_for_date can give, the
\* lowest of those that line 347 turns into the same target.
TargetPctDraws(date, total) ==
    LET drawn == get_occupancy_for_date(date, today, tier_ranges, occ_min, occ_max)
    IN  {target_pct \in drawn :
            \A other \in drawn :
                TargetOccupied(total, other) = TargetOccupied(total, target_pct)
                    => target_pct <= other}

\* Lines 352-361: the booking dates a candidate of the date can get.
BookDateDraws(date) == {ClampBookDate(drawn) : drawn \in DrawnBookDates(date)}

\* Mutant of WithinStayWindow: the guard lets a check-out one day late through.
WithinStayWindowOffByOne(checkout) == checkout <= checkin_end + 1

\* Line 367.
WithinStayWindow(checkout) == checkout <= checkin_end

\* Mutant of CounterAfter: the increment sits outside the guard of line 367.
CounterAfterEveryCandidate(counter, within) == counter + 1

\* Line 431: the increment sits inside the guard of line 367.
CounterAfter(counter, within) == IF within THEN counter + 1 ELSE counter

-----------------------------------------------------------------------------
(* The script.                                                              *)

\* Line 285: the list comprehension divides by sum(night_weights).
Normalize ==
    /\ pc = "sidebar"
    /\ IF SumSeq(night_weights) = 0
       THEN /\ pc' = "ZeroDivisionError"
            /\ UNCHANGED night_weights
       ELSE /\ pc' = "main"
            /\ night_weights' = Normalized(night_weights)
    /\ UNCHANGED <<config, occupancy_tracker, bookings_data, booking_counter,
                   d, rt, target_occupied, rooms_needed, attempt, checkout_date,
                   target_pct_log, returned>>

\* Lines 319-342: the button; the tracker is built and the loop starts.
Generate ==
    /\ pc = "main"
    /\ occupancy_tracker' =
          [day \in checkin_start..checkin_end |->
              [name \in {room_configs[k].name : k \in 1..Len(room_configs)} |-> 0]]
    /\ bookings_data' = <<>>
    /\ booking_counter' = 1
    /\ d' = checkin_start
    /\ rt' = 1
    /\ target_pct_log' =
          [day \in checkin_start..checkin_end |->
              [name \in {room_configs[k].name : k \in 1..Len(room_configs)} |-> -1]]
    /\ pc' = "room"
    /\ UNCHANGED <<config, night_weights, target_occupied, rooms_needed, attempt,
                   checkout_date, returned>>

\* Lines 344-349: the target of (d, room type) and the rooms still needed.
RoomType ==
    /\ pc = "room"
    /\ d <= checkin_end
    /\ rt <= Len(room_configs)
    /\ \E target_pct \in TargetPctDraws(d, room_configs[rt].total) :
          LET target == TargetOccupied(room_configs[rt].total, target_pct)
          IN  /\ target_occupied' = target
              /\ rooms_needed' =
                    RoomsNeeded(target, occupancy_tracker[d][room_configs[rt].name])
              /\ target_pct_log' =
                    [target_pct_log EXCEPT ![d][room_configs[rt].name] = target_pct]
    /\ attempt' = 0
    /\ pc' = "candidate"
    /\ UNCHANGED <<config, night_weights, occupancy_tracker, bookings_data,
                   booking_counter, d, rt, checkout_date, returned>>

\* Lines 351-431: one pass of the candidate loop.
Candidate ==
    /\ pc = "candidate"
    /\ attempt < rooms_needed
    /\ Len(bookings_data) < MaxBookings
    /\ attempt' = attempt + 1
    /\ \E book_date \in BookDateDraws(d), num_nights \in NightDraws :
          LET checkin_date == d
              checkout     == checkin_date + num_nights
              room_type    == room_configs[rt].name
              days_advance == checkin_date - book_date
          IN  /\ checkout_date' = checkout
              /\ booking_counter' = CounterAfter(booking_counter, WithinStayWindow(checkout))
              /\ \/ /\ WithinStayWindow(checkout)
                    /\ \E rate_plan \in PlanDraws(days_advance), is_member \in BOOLEAN,
                          jitter \in JitterDraws, status \in StatusDraws :
                          LET booked_rate ==
                                 BookedRate(room_configs[rt].base_rate, rate_plan,
                                            is_member, jitter)
                          IN  /\ bookings_data' = Append(bookings_data,
                                    [Booking_ID          |-> BookingId(booking_counter),
                                     Booking_Date        |-> Strftime(book_date),
                                     Check_in_Date       |-> Strftime(checkin_date),
                                     Check_out_Date      |-> Strftime(checkout),
                                     Room_Type           |-> room_type,
                                     Rate_Plan           |-> PlanLabel(rate_plan, is_member),
                                     Booked_Rate         |-> booked_rate,
                                     Number_of_Nights    |-> num_nights,
                                     Cancellation_Status |-> status,
                                     Revenue_Generated   |->
                                         Revenue(booked_rate, num_nights, status)])
                              /\ occupancy_tracker' =
                                    TrackerAfter(occupancy_tracker, room_type,
                                                 checkin_date, checkout, status)
                 \/ /\ ~WithinStayWindow(checkout)
                    /\ UNCHANGED <<bookings_data, occupancy_tracker>>
    /\ UNCHANGED <<config, night_weights, pc, d, rt, target_occupied, rooms_needed,
                   target_pct_log, returned>>

\* The candidate loop of (d, room type) is over: the next room type, or line 432.
NextRoomType ==
    /\ pc = "candidate"
    /\ attempt = rooms_needed
    /\ IF rt < Len(room_configs)
       THEN rt' = rt + 1 /\ d' = d
       ELSE rt' = 1 /\ d' = d + 1
    /\ pc' = "room"
    /\ UNCHANGED <<config, night_weights, occupancy_tracker, bookings_data,
                   booking_counter, target_occupied, rooms_needed, attempt,
                   checkout_date, target_pct_log, returned>>

\* Line 343 fails: bookings_df is built from bookings_data.
Finish ==
    /\ pc = "room"
    /\ d > checkin_end
    /\ pc' = "done"
    /\ UNCHANGED <<config, night_weights, occupancy_tracker, bookings_data,
                   booking_counter, d, rt, target_occupied, rooms_needed, attempt,
                   checkout_date, target_pct_log, returned>>

Next == Normalize \/ Generate \/ RoomType \/ Candidate \/ NextRoomType \/ Finish

-----------------------------------------------------------------------------
(* Configurations the form can deliver.                                     *)

\* Lines 266-272: the presets.
BusinessHotel == <<35, 30, 15, 10, 7, 2, 1>>

ResortVacation == <<10, 15, 25, 25, 15, 7, 3>>

Balanced == <<14, 14, 14, 14, 14, 15, 15>>

\* Lines 273-282: Custom slider settings (each 0..50).
AllZero == <<0, 0, 0, 0, 0, 0, 0>>

TwoNightsOnly == <<0, 50, 0, 0, 0, 0, 0>>

ShortStays == <<50, 30, 20, 0, 0, 0, 0>>

AllFifty == <<50, 50, 50, 50, 50, 50, 50>>

\* Lines 122-131: the tier sliders, tier 1 at (100, 100) and tier 2 at (50, 90).
Tiers == <<<<100, 100>>, <<50, 90>>, <<40, 60>>, <<25, 45>>>>

\* Line 214.
rate_plan_defaults ==
    [p \in {"BAR", "Non-Refundable", "Early Bird (> 30 days)"} |->
        IF p = "BAR" THEN 0 ELSE IF p = "Non-Refundable" THEN 10 ELSE 15]

\* Line 217 at its maximum for every plan.
rate_plan_maximum == [p \in DOMAIN rate_plan_defaults |-> 80]

\* 2025-01-30, so that a stay window of a few days crosses into February.
FirstArrival == Ordinal(<<2025, 1, 30>>)

\* 2024-10-15: January 2025 is 3 months ahead (tier 1), February 4 (tier 2).
Today == Ordinal(<<2024, 10, 15>>)

Room(name, total, base_rate) == [name |-> name, total |-> total, base_rate |-> base_rate]

\* Stay windows from FirstArrival: k = -1 is the empty window (end before start).
StayWindow(k) == <<FirstArrival, FirstArrival + k>>

\* Booked long before arrival: every booking date is clamped to booking_end.
LongBefore == <<Ordinal(<<2024, 1, 1>>), Ordinal(<<2024, 1, 2>>)>>

Configured(bw, sw, occ, rooms, plans, corp, member, weights) ==
    /\ booking_start = bw[1]
    /\ booking_end = bw[2]
    /\ checkin_start = sw[1]
    /\ checkin_end = sw[2]
    /\ tier_ranges = occ[1]
    /\ occ_min = occ[2]
    /\ occ_max = occ[3]
    /\ room_configs = rooms
    /\ rate_plan_discounts = plans
    /\ corporate_discount_idr = corp
    /\ member_discount_pct = member
    /\ night_weights = weights
    /\ occupancy_tracker = <<>>
    /\ bookings_data = <<>>
    /\ booking_counter = 0
    /\ rt = 0
    /\ target_occupied = 0
    /\ rooms_needed = 0
    /\ attempt = 0
    /\ checkout_date = 0
    /\ target_pct_log = <<>>
    /\ returned = 0

\* The script starts at the sidebar, on the day Today.
Setup(bw, sw, occ, rooms, plans, corp, member, weights) ==
    /\ pc = "sidebar"
    /\ today = Today
    /\ d = 0
    /\ Configured(bw, sw, occ, rooms, plans, corp, member, weights)

\* The stay window and the room table vary, under a fixed occupancy range:
\* windows of up to three days for one room type of up to two rooms, of up to
\* two days for more rooms and for two room types.
InitOccupancy ==
    \/ \E k \in (-1)..2,
          rooms \in {<<Room("Standard", 1, 150000)>>, <<Room("Standard", 2, 150000)>>} :
          Setup(LongBefore, StayWindow(k), <<"None", 10, 100>>, rooms, rate_plan_defaults,
                150000, 10, ShortStays)
    \/ \E k \in 0..1,
          rooms \in {<<Room("Standard", n, 150000)>> : n \in 2..MaxRooms}
                    \cup {<<Room("Standard", 1, 150000), Room("Deluxe", 1, 150000)>>} :
          Setup(LongBefore, StayWindow(k), <<"None", 10, 100>>, rooms, rate_plan_defaults,
                150000, 10, ShortStays)

\* Seasonal tiers: the stay window's days fall into tier 1 and tier 2.
InitTiers ==
    \E k \in 0..2,
       rooms \in {<<Room("Standard", 2, 150000)>>,
                  <<Room("Standard", 1, 150000), Room("Deluxe", 1, 150000)>>} :
       Setup(LongBefore, StayWindow(k), <<Tiers, 25, 100>>, rooms, rate_plan_defaults,
             150000, 10, ShortStays)

\* The stay-length weights vary.
InitWeights ==
    \E weights \in {BusinessHotel, ResortVacation, Balanced, AllZero, TwoNightsOnly, AllFifty} :
       Setup(LongBefore, StayWindow(2), <<"None", 50, 100>>, <<Room("Standard", 1, 150000)>>,
             rate_plan_defaults, 150000, 10, weights)

\* The booking window varies against the stay window: ending 30 days before the
\* first arrival, long before, after the stay window, inverted, a single day,
\* and starting two days before the first arrival.
BookingWindows ==
    {<<FirstArrival - 31, FirstArrival - 30>>,
     LongBefore,
     <<FirstArrival + 5, FirstArrival + 6>>,
     <<FirstArrival - 29, FirstArrival - 31>>,
     <<FirstArrival - 30, FirstArrival - 30>>,
     <<FirstArrival - 2, FirstArrival + 6>>,
     <<FirstArrival + 1, FirstArrival + 1>>}

InitDates ==
    \E bw \in BookingWindows, k \in 1..2 :
       Setup(bw, StayWindow(k), <<"None", 100, 100>>, <<Room("Standard", 1, 150000)>>,
             rate_plan_defaults, 150000, 10, ShortStays)

\* The rates and discounts vary; bookings are made within two days of arrival.
InitRates ==
    \E base_rate \in {100000, 150000},
       corp \in {0, 150000, 300000},
       member \in {0, 10, 50},
       plans \in {rate_plan_defaults, rate_plan_maximum} :
       Setup(<<FirstArrival - 1, FirstArrival + 6>>, StayWindow(1), <<"None", 100, 100>>,
             <<Room("Standard", 1, base_rate)>>, plans, corp, member, BusinessHotel)

Init == InitOccupancy \/ InitTiers \/ InitWeights \/ InitDates \/ InitRates

Spec == Init /\ [][Next]_vars

-----------------------------------------------------------------------------
(* get_occupancy_for_date on its own: one call, its arguments drawn from    *)
(* the dates and the occupancy settings the form can deliver.               *)

\* Lines 122-131: the four sliders at their full widths, and at disjoint ranges.
WidestTiers == <<<<50, 100>>, <<30, 90>>, <<20, 70>>, <<10, 60>>>>

DisjointTiers == <<<<95, 100>>, <<75, 90>>, <<65, 70>>, <<10, 60>>>>

\* Lines 117-133: Seasonal Tiers; the fallback range is passed along with them.
TierSettings == {<<WidestTiers, 10, 100>>, <<DisjointTiers, 10, 100>>, <<Tiers, 25, 100>>}

\* Lines 135-150: the Fixed Range slider at its widest and its default, and Random.
RangeSettings == {<<"None", 10, 100>>, <<"None", 50, 80>>, <<"None", 50, 95>>}

\* Check-in dates of 2024 and 2025, early and late in each month.
CheckinDates == {Ordinal(<<y, m, day>>) : y \in {2024, 2025}, m \in 1..12, day \in {1, 28}}

\* Line 340: the days the script may run on.
Todays == {Ordinal(<<2024, 10, 15>>), Ordinal(<<2024, 12, 31>>), Ordinal(<<2025, 1, 1>>)}

InitCall ==
    \E checkin_date \in CheckinDates, today_date \in Todays :
       /\ pc = "call"
       /\ today = today_date
       /\ d = checkin_date
       /\ \/ \E occ \in TierSettings :
                Configured(LongBefore, StayWindow(2), occ, <<Room("Standard", 1, 150000)>>,
                           rate_plan_defaults, 150000, 10, BusinessHotel)
          \/ \E occ \in RangeSettings :
                Configured(LongBefore, StayWindow(2), occ, <<Room("Standard", 1, 150000)>>,
                           rate_plan_defaults, 150000, 10, BusinessHotel)

\* Line 346: the call, with the loop's date and the configured occupancy settings.
OccupancyCall ==
    /\ pc = "call"
    /\ returned' \in get_occupancy_for_date(d, today, tier_ranges, occ_min, occ_max)
    /\ pc' = "returned"
    /\ UNCHANGED <<config, night_weights, occupancy_tracker, bookings_data,
                   booking_counter, d, rt, target_occupied, rooms_needed, attempt,
                   checkout_date, target_pct_log>>

NextCall == OccupancyCall

SpecCall == InitCall /\ [][NextCall]_vars

-----------------------------------------------------------------------------
(* Readings of the emitted table.                                           *)

Bookings == {bookings_data[k] : k \in 1..Len(bookings_data)}

RoomNames == {room_configs[k].name : k \in 1..Len(room_configs)}

TotalOf(name) ==
    LET k == CHOOSE j \in 1..Len(room_configs) : room_configs[j].name = name
    IN  room_configs[k].total

RECURSIVE DigitsValue(_)
DigitsValue(s) ==
    IF s = <<>> THEN 0 ELSE 10 * DigitsValue(SubSeq(s, 1, Len(s) - 1)) + s[Len(s)]

\* The number a Booking_ID "BKGnnnnn" carries.
IdNumber(id) == DigitsValue(Tail(id))

\* The emitted Confirmed bookings of a room type whose stay covers the day.
ConfirmedCovering(day, name) ==
    {k \in 1..Len(bookings_data) :
        /\ bookings_data[k].Cancellation_Status = "Confirmed"
        /\ bookings_data[k].Room_Type = name
        /\ Ordinal(bookings_data[k].Check_in_Date) <= day
        /\ day < Ordinal(bookings_data[k].Check_out_Date)}

\* The emitted Confirmed bookings of a room type that checked in before the day
\* and stay over it: what line 348 finds in the tracker when the loop reaches the day.
CarriedInto(day, name) ==
    {k \in ConfirmedCovering(day, name) : Ordinal(bookings_data[k].Check_in_Date) < day}

Generating == pc \in {"room", "candidate", "done"}

-----------------------------------------------------------------------------
(* Claims.                                                                  *)

\* C1: at every point of a run, and so at its end and after every booking,
\* no tracker entry exceeds the total room count of its room type.
C1_TrackerWithinTotal ==
    \A day \in DOMAIN occupancy_tracker : \A name \in RoomNames :
        occupancy_tracker[day][name] <= TotalOf(name)

\* C1 witness: a finished run in which a room type of two or more rooms is
\* full on a day that a stay of several nights covers.
C1_Witness ==
    /\ pc = "done"
    /\ \E day \in DOMAIN occupancy_tracker : \E name \in RoomNames :
          /\ TotalOf(name) >= 2
          /\ occupancy_tracker[day][name] = TotalOf(name)
          /\ \E k \in ConfirmedCovering(day, name) :
                /\ bookings_data[k].Number_of_Nights >= 2
                /\ Ordinal(bookings_data[k].Check_in_Date) < day

\* C5: every emitted booking has 1..7 nights, checks out exactly that many
\* days after check-in, checks in no earlier than the stay window's start
\* and checks out no later than its end.
C5_StayWithinWindow ==
    \A b \in Bookings :
        LET check_in  == Ordinal(b.Check_in_Date)
            check_out == Ordinal(b.Check_out_Date)
        IN  /\ b.Number_of_Nights \in 1..7
            /\ check_out = check_in + b.Number_of_Nights
            /\ check_out > check_in
            /\ checkin_start <= check_in
            /\ check_out <= checkin_end

\* C5 witness: a booking of several nights that checks out on the last day of
\* the stay window, in another month than it checked in.
C5_Witness ==
    \E b \in Bookings :
        /\ b.Number_of_Nights >= 2
        /\ Ordinal(b.Check_out_Date) = checkin_end
        /\ b.Check_out_Date[2] # b.Check_in_Date[2]

\* C8: the k-th emitted booking carries id number k, and while the run
\* generates, booking_counter is the number of emitted bookings plus one.
C8_SequentialIds ==
    /\ \A k \in 1..Len(bookings_data) :
          /\ Head(bookings_data[k].Booking_ID) = "BKG"
          /\ Len(bookings_data[k].Booking_ID) = 6
          /\ IdNumber(bookings_data[k].Booking_ID) = k
    /\ Generating => booking_counter = Len(bookings_data) + 1

\* C8 witness: after a first booking, the first candidate of a later date was
\* discarded and the second one emitted, with id number 2.
C8_Witness ==
    /\ pc = "candidate"
    /\ Len(bookings_data) = 2
    /\ attempt = 2
    /\ checkout_date <= checkin_end
    /\ Ordinal(bookings_data[1].Check_in_Date) < d
    /\ Ordinal(bookings_data[2].Check_in_Date) = d
    /\ IdNumber(bookings_data[2].Booking_ID) = 2

\* C9: every tracker entry is the number of emitted Confirmed bookings of its
\* room type whose stay [check-in, check-out) covers its date.
C9_TrackerCountsConfirmed ==
    \A day \in DOMAIN occupancy_tracker : \A name \in RoomNames :
        occupancy_tracker[day][name] = Cardinality(ConfirmedCovering(day, name))

\* C9 witness: a finished run over two room types with a Cancelled booking, a
\* Confirmed booking of several nights, and a date one room type occupies
\* while the other does not.
C9_Witness ==
    /\ pc = "done"
    /\ Len(room_configs) = 2
    /\ \E b \in Bookings : b.Cancellation_Status = "Cancelled"
    /\ \E b \in Bookings :
          b.Cancellation_Status = "Confirmed" /\ b.Number_of_Nights >= 2
    /\ \E day \in DOMAIN occupancy_tracker :
          occupancy_tracker[day]["Standard"] # occupancy_tracker[day]["Deluxe"]

\* C10: a candidate whose check-out is after the stay window's end changes
\* neither the bookings, the id counter nor the tracker, raises no error and
\* counts as one attempt; the candidate loop is left only after exactly
\* rooms_needed attempts.
C10_DiscardChangesNothing ==
    [][/\ (pc = "candidate" /\ attempt' # attempt /\ checkout_date' > checkin_end)
           => /\ bookings_data' = bookings_data
              /\ booking_counter' = booking_counter
              /\ occupancy_tracker' = occupancy_tracker
              /\ pc' = "candidate"
              /\ attempt' = attempt + 1
              /\ rooms_needed' = rooms_needed
              /\ attempt' <= rooms_needed
       /\ (pc = "candidate" /\ pc' # "candidate")
           => /\ pc' = "room"
              /\ attempt = rooms_needed]_vars

\* C10 witness: a candidate was discarded on a day before the last one, with
\* bookings already emitted, and the candidate loop has ended.
C10_Witness ==
    /\ pc = "candidate"
    /\ checkout_date > checkin_end
    /\ d < checkin_end
    /\ attempt = rooms_needed
    /\ rooms_needed >= 2
    /\ Len(bookings_data) >= 1

\* The rate plan label with a " + Member" suffix removed.
StripMember(label) ==
    IF Len(label) > 1 /\ label[Len(label)] = " + Member"
    THEN SubSeq(label, 1, Len(label) - 1)
    ELSE label

DaysAdvance(b) == Ordinal(b.Check_in_Date) - Ordinal(b.Booking_Date)

\* C2 (as claimed): revenue is 0 exactly for Cancelled bookings, and a
\* Confirmed booking's revenue is its rate times its nights.
C2_RevenueZeroIffCancelled ==
    \A b \in Bookings :
        /\ (b.Revenue_Generated = 0) <=> (b.Cancellation_Status = "Cancelled")
        /\ b.Cancellation_Status = "Confirmed"
              => b.Revenue_Generated = b.Booked_Rate * b.Number_of_Nights

\* C3 (as claimed): no booking is made after its check-in date.
C3_BookedBeforeCheckIn ==
    \A b \in Bookings : Ordinal(b.Booking_Date) <= Ordinal(b.Check_in_Date)

\* C4 (as claimed): every booking date lies within the booking window.
C4_BookedWithinWindow ==
    \A b \in Bookings :
        /\ booking_start <= Ordinal(b.Booking_Date)
        /\ Ordinal(b.Booking_Date) <= booking_end

\* C6: the rate plan of an emitted booking, member suffix removed, is Early
\* Bird exactly when the booking was made more than 30 days before check-in,
\* and otherwise one of BAR, Non-Refundable and Corporate.
C6_EarlyBirdIffOverThirtyDays ==
    \A b \in Bookings :
        LET plan == StripMember(b.Rate_Plan)
            days == DaysAdvance(b)
        IN  /\ (plan = <<"Early Bird (> 30 days)">>) <=> (days > 30)
            /\ days <= 30 => plan \in {<<"BAR">>, <<"Non-Refundable">>, <<"Corporate">>}

\* C6 witness: a Cancelled member booking made exactly 30 days ahead on the
\* Corporate plan, followed by a booking made 31 days ahead on Early Bird.
C6_Witness ==
    \E b1, b2 \in Bookings :
        /\ DaysAdvance(b1) = 30
        /\ b1.Rate_Plan = <<"Corporate", " + Member">>
        /\ b1.Cancellation_Status = "Cancelled"
        /\ DaysAdvance(b2) = 31
        /\ StripMember(b2.Rate_Plan) = <<"Early Bird (> 30 days)">>

\* C7 (as claimed): normalising the weights never fails, and the normalised
\* weights sum to 1.
C7_WeightsNormalised ==
    /\ pc # "ZeroDivisionError"
    /\ pc # "sidebar" => FracSum(night_weights) = Frac(1, 1)

\* The tier the claim's table gives a month offset; every offset has one.
ClaimedTier(months_diff) ==
    CASE months_diff < 0 -> 1
      [] months_diff \in 0..3 -> 1
      [] months_diff \in 4..6 -> 2
      [] months_diff \in 7..9 -> 3
      [] months_diff >= 10 -> 4

\* C11: with tiers, the returned percentage lies in the range of the tier the
\* table gives (check-in year - today's year) x 12 + (check-in month - today's
\* month); without, in the fallback range; in both cases within 0..100.
C11_OccupancyWithinTier ==
    pc = "returned" =>
        LET checkin == Strftime(d)
            now     == Strftime(today)
            months  == (checkin[1] - now[1]) * 12 + (checkin[2] - now[2])
            range   == IF tier_ranges = "None" THEN <<occ_min, occ_max>>
                       ELSE tier_ranges[ClaimedTier(months)]
        IN  /\ range[1] <= returned /\ returned <= range[2]
            /\ 0 <= returned /\ returned <= 100

\* C11 witness: a call nine months ahead, across the year's end, returned the
\* top of tier 3, which lies in no other tier's range.
C11_Witness ==
    /\ pc = "returned"
    /\ tier_ranges # "None"
    /\ tier_ranges = DisjointTiers
    /\ Strftime(d)[1] = Strftime(today)[1] + 1
    /\ MonthsDiff(d, today) = 9
    /\ returned = 70

\* floor(total rooms x the target percentage drawn for (day, room type)).
LoggedTarget(day, name) == (TotalOf(name) * target_pct_log[day][name]) \div 100

\* C12 (as claimed): at the end of a run no tracker entry exceeds the target
\* of its date and room type.
C12_TrackerWithinTarget ==
    pc = "done" =>
        \A day \in DOMAIN occupancy_tracker : \A name \in RoomNames :
            occupancy_tracker[day][name] <= LoggedTarget(day, name)

\* C12 (amended): once the loop has drawn the target of a date and room type,
\* and so at the end of a run, the tracker entry is at most the larger of that
\* target and the number of Confirmed stays carried in from earlier check-ins.
C12_TrackerWithinTargetOrCarried ==
    \A day \in DOMAIN target_pct_log : \A name \in DOMAIN target_pct_log[day] :
        target_pct_log[day][name] # -1 =>
            occupancy_tracker[day][name]
                <= Max(LoggedTarget(day, name), Cardinality(CarriedInto(day, name)))

\* C12 witness: a finished run in which one date was filled exactly to its
\* target of at least one room, and a later date holds more carried-in stays
\* than its own target allows.
C12_Witness ==
    /\ pc = "done"
    /\ \E first, later \in DOMAIN occupancy_tracker : \E name \in RoomNames :
          /\ first < later
          /\ LoggedTarget(first, name) >= 1
          /\ occupancy_tracker[first][name] = LoggedTarget(first, name)
          /\ occupancy_tracker[later][name] > LoggedTarget(later, name)
          /\ occupancy_tracker[later][name] = Cardinality(CarriedInto(later, name))

\* C13: no emitted booking checks in on the last day of the stay window, and
\* the tracker of that day stays at 0 for every room type, up to the end of
\* the run, whatever target was drawn for the day.
C13_LastDayEmpty ==
    /\ \A b \in Bookings : Ordinal(b.Check_in_Date) # checkin_end
    /\ checkin_end \in DOMAIN occupancy_tracker =>
          \A name \in RoomNames : occupancy_tracker[checkin_end][name] = 0

\* C13 witness: a finished run whose last day drew a target of 100% of at
\* least one room, had every candidate of that day discarded, and follows a
\* Confirmed stay that checks out on that very day.
C13_Witness ==
    /\ pc = "done"
    /\ checkin_start < checkin_end
    /\ \E name \in RoomNames :
          /\ target_pct_log[checkin_end][name] = 100
          /\ TotalOf(name) >= 1
          /\ occupancy_tracker[checkin_end][name] = 0
          /\ \E b \in Bookings :
                /\ b.Room_Type = name
                /\ b.Cancellation_Status = "Confirmed"
                /\ Ordinal(b.Check_out_Date) = checkin_end
    /\ rooms_needed >= 1
    /\ attempt = rooms_needed
    /\ checkout_date > checkin_end

====
